---- MODULE Spec2Model ----
(***************************************************************************)
(* Model of src/src/App.tsx: the React component of the game.              *)
(*                                                                         *)
(* State = the component's useState cells and useRef cells, the set of     *)
(* animation-frame callbacks the browser still holds, and whether the      *)
(* collision/scoring effect is waiting to run for the committed render.    *)
(*                                                                         *)
(* Units.  Horizontal quantities are pixels (all integers in the source).  *)
(* Vertical quantities are kept in fifths of a pixel, because GRAVITY is   *)
(* 0.6 px and every velocity and position the code computes is a multiple  *)
(* of 0.2 px: birdY, birdVelocity, gapY are 5 * (the source's value),      *)
(* birdRotation is 5 * (the source's degrees).  The arithmetic is exact;   *)
(* IEEE-754 rounding of the sums of 0.6 is not modelled.                   *)
(*                                                                         *)
(* React.  A handler's state updates are committed in one render.  The     *)
(* game-loop effect (deps gameState, birdVelocity) is re-run with that     *)
(* commit; the collision/scoring effect (deps birdY, pipes, gameState,     *)
(* score, highScore) is a step of its own, Evaluate, that runs before the  *)
(* next animation frame (React flushes the passive effects of a commit     *)
(* before the next frame is painted).  A key press may fall in between.    *)
(*                                                                         *)
(* History.  frames counts the animation frames of the session, lastOp     *)
(* names the handler that ran last, crossed counts the obstacles of the    *)
(* current round whose right edge has moved left of the bird's left edge.  *)
(* The program has none of the three and no action's guard reads crossed.  *)
(***************************************************************************)
EXTENDS Integers, Sequences, FiniteSets

VARIABLES gameState, birdY, birdVelocity, pipes, score, highScore,
          birdRotation, gameLoopRef, lastPipeRef, raf, evalPending,
          frames, lastOp, crossed

vars == <<gameState, birdY, birdVelocity, pipes, score, highScore,
          birdRotation, gameLoopRef, lastPipeRef, raf, evalPending,
          frames, lastOp, crossed>>

\* ------------------------------------------------------------ bounds
\* Animation frames of one session (all rounds together).
MaxFrames == 230
\* A key press in the playing phase arrives only on every JumpEvery-th frame.
JumpEvery == 8
\* In LiveSpec no activate input arrives from this frame of the session on.
LastInput == 160

\* ------------------------------------------------------------ constants
\* fifths of a pixel per pixel
Unit == 5
\* 0.6 px per frame = 0.6 * Unit fifths of a pixel
GRAVITY == 3
\* -10 px per frame
JUMP_FORCE == -10 * Unit
PIPE_WIDTH == 80
PIPE_GAP == 180
PIPE_SPEED == 4
BIRD_SIZE == 50
GAME_WIDTH == 400
GAME_HEIGHT == 600
\* birdLeft of the collision effect
BIRD_LEFT == 80
\* the spawn threshold of lastPipeRef
SPAWN_AFTER == 200
\* bounds of the rotation, degrees
ROT_MIN == -30
ROT_MAX == 90

\* gameLoopRef.current is undefined (line 27): no handle
NoFrame == {}

\* Math.random() returns r / RandDen with r in 0 .. RandDen - 1, a value in
\* [0, 1); with this denominator every gapY is a whole number of fifths of
\* a pixel.
RandDen == (GAME_HEIGHT - PIPE_GAP - 150) * Unit

\* the values of Math.random() drawn here: the least and the greatest
RandChoices == {0, RandDen - 1}

\* a gap offset without the margins
GapY_NoMargin(r) == (r * (GAME_HEIGHT - PIPE_GAP) * Unit) \div RandDen

\* line 81: Math.random() * (GAME_HEIGHT - PIPE_GAP - 150) + 75
GapY(r) == (r * (GAME_HEIGHT - PIPE_GAP - 150) * Unit) \div RandDen + 75 * Unit

\* the gap offsets a spawn can draw, in fifths of a pixel
GapChoices == {GapY(r) : r \in RandChoices}

Min(a, b) == IF a < b THEN a ELSE b
Max(a, b) == IF a > b THEN a ELSE b

\* ------------------------------------------------------------ helpers
\* a step that forgets the clamp
ClampY_NoClamp(newY) == newY

\* line 65: Math.max(0, Math.min(GAME_HEIGHT - BIRD_SIZE, newY))
ClampY(newY) == Max(0, Min((GAME_HEIGHT - BIRD_SIZE) * Unit, newY))

\* line 69: Math.min(90, Math.max(-30, birdVelocity * 3))
ClampRot(v) == Min(ROT_MAX * Unit, Max(ROT_MIN * Unit, v * 3))

\* a copy that rebuilds the pipe and loses the flag
MovePipe_DropPassed(pipe) ==
    [x |-> pipe.x - PIPE_SPEED, gapY |-> pipe.gapY, passed |-> FALSE]

\* lines 72-74: { ...pipe, x: pipe.x - PIPE_SPEED }
MovePipe(pipe) == [pipe EXCEPT !.x = pipe.x - PIPE_SPEED]

\* a filter that keeps the obstacle whose right edge is on the left edge
KeepPipe_Inclusive(pipe) == pipe.x >= -PIPE_WIDTH

\* line 75: the filter's predicate
KeepPipe(pipe) == pipe.x > -PIPE_WIDTH

RECURSIVE MoveAll(_)
\* lines 72-75: map then filter, order kept
MoveAll(ps) ==
    IF ps = <<>> THEN <<>>
    ELSE LET p == MovePipe(Head(ps))
         IN  IF KeepPipe(p) THEN <<p>> \o MoveAll(Tail(ps))
             ELSE MoveAll(Tail(ps))

\* a spawn as soon as the accumulator reaches the threshold
SpawnDue_AtThreshold(acc) == acc >= SPAWN_AFTER

\* line 79: lastPipeRef.current > 200, after line 78 added PIPE_SPEED
SpawnDue(acc) == acc > SPAWN_AFTER

\* line 82
NewPipe(g) == [x |-> GAME_WIDTH, gapY |-> g, passed |-> FALSE]

\* strict comparisons at the ceiling and the floor
BoundaryHit_Strict(y) == y < 0 \/ y + BIRD_SIZE * Unit > GAME_HEIGHT * Unit

\* a boundary test that forgets the floor
BoundaryHit_CeilingOnly(y) == y <= 0

\* line 107: ground/ceiling collision
BoundaryHit(y) == y <= 0 \/ y + BIRD_SIZE * Unit >= GAME_HEIGHT * Unit

\* inclusive comparisons on the gap
PipeHit_Inclusive(pipe, y) ==
    /\ BIRD_LEFT + BIRD_SIZE > pipe.x
    /\ BIRD_LEFT < pipe.x + PIPE_WIDTH
    /\ \/ y <= pipe.gapY
       \/ y + BIRD_SIZE * Unit >= pipe.gapY + PIPE_GAP * Unit

\* lines 118-119: horizontal overlap and the bird not inside the gap
PipeHit(pipe, y) ==
    /\ BIRD_LEFT + BIRD_SIZE > pipe.x
    /\ BIRD_LEFT < pipe.x + PIPE_WIDTH
    /\ \/ y < pipe.gapY
       \/ y + BIRD_SIZE * Unit > pipe.gapY + PIPE_GAP * Unit

\* a score condition that compares with the left edge of the playfield
PipeScores_FieldEdge(pipe) == ~pipe.passed /\ pipe.x + PIPE_WIDTH < 0

\* line 127
PipeScores(pipe) == ~pipe.passed /\ pipe.x + PIPE_WIDTH < BIRD_LEFT

\* line 128: pipe.passed = true (the object in the state is mutated)
MarkPassed(pipe) == [pipe EXCEPT !.passed = TRUE]

\* the best score is never updated
NewHighScore_Never(s, h) == h

\* the best score is overwritten by every final score
NewHighScore_Overwrite(s, h) == s

\* lines 109, 121: if (score > highScore) setHighScore(score)
NewHighScore(s, h) == IF s > h THEN s ELSE h

\* history: the obstacles of ps whose right edge is not yet left of the
\* bird's left edge (the comparison of line 127) and is after one move
Crossing(ps) ==
    Cardinality({i \in 1..Len(ps) :
                    /\ ~(ps[i].x + PIPE_WIDTH < BIRD_LEFT)
                    /\ ps[i].x - PIPE_SPEED + PIPE_WIDTH < BIRD_LEFT})


RECURSIVE PipeLoop(_, _, _, _)
\* lines 114-131: the for loop; inc counts the setScore(s => s + 1) calls
\* issued before the loop ends or returns
PipeLoop(ps, i, y, inc) ==
    IF i > Len(ps) THEN [dead |-> FALSE, pipes |-> ps, inc |-> inc]
    ELSE IF PipeHit(ps[i], y) THEN [dead |-> TRUE, pipes |-> ps, inc |-> inc]
    ELSE IF PipeScores(ps[i])
         THEN PipeLoop([ps EXCEPT ![i] = MarkPassed(ps[i])], i + 1, y, inc + 1)
         ELSE PipeLoop(ps, i + 1, y, inc)

\* a cleanup that cancels nothing
CancelFrame_None(r, ref) == r

\* line 93: if (gameLoopRef.current) cancelAnimationFrame(gameLoopRef.current)
CancelFrame(r, ref) == r \ ref

\* an effect that depends on gameState only
LoopEffect_IgnoreVelocity(gs0, v0, gs1, v1, r, ref) ==
    IF gs0 = gs1 THEN [raf |-> r, ref |-> ref]
    ELSE LET cleaned == IF gs0 = "playing" THEN CancelFrame(r, ref) ELSE r
         IN  IF gs1 = "playing"
             THEN [raf |-> cleaned \cup {v1}, ref |-> {v1}]
             ELSE [raf |-> cleaned, ref |-> ref]

\* lines 58-95: the game-loop effect of a commit that takes (gs0, v0) to
\* (gs1, v1); r are the pending callbacks (each named by the birdVelocity
\* its closure captured), ref is gameLoopRef.current: the set holding the
\* handle stored last, or NoFrame
LoopEffect(gs0, v0, gs1, v1, r, ref) ==
    IF gs0 = gs1 /\ v0 = v1 THEN [raf |-> r, ref |-> ref]
    ELSE LET cleaned == IF gs0 = "playing" THEN CancelFrame(r, ref) ELSE r
         IN  IF gs1 = "playing"
             THEN [raf |-> cleaned \cup {v1}, ref |-> {v1}]
             ELSE [raf |-> cleaned, ref |-> ref]

\* ------------------------------------------------------------ initial state
\* lines 20-28
Init ==
    /\ gameState = "idle"
    /\ birdY = (GAME_HEIGHT \div 2) * Unit
    /\ birdVelocity = 0
    /\ pipes = <<>>
    /\ score = 0
    /\ highScore = 0
    /\ birdRotation = 0
    /\ gameLoopRef = NoFrame
    /\ lastPipeRef = 0
    /\ raf = {}
    /\ evalPending = FALSE
    /\ frames = 0
    /\ lastOp = "init"
    /\ crossed = 0

\* ------------------------------------------------------------ jump
\* a start that forgets the impulse
JumpIdle_NoImpulse ==
    /\ gameState = "idle"
    /\ gameState' = "playing"
    /\ LET e == LoopEffect(gameState, birdVelocity, "playing", birdVelocity,
                           raf, gameLoopRef)
       IN  raf' = e.raf /\ gameLoopRef' = e.ref
    /\ evalPending' = TRUE
    /\ UNCHANGED <<birdVelocity, birdY, pipes, score, highScore, birdRotation,
                   lastPipeRef>>

\* lines 31-33
JumpIdle ==
    /\ gameState = "idle"
    /\ gameState' = "playing"
    /\ birdVelocity' = JUMP_FORCE
    /\ LET e == LoopEffect(gameState, birdVelocity, "playing", JUMP_FORCE,
                           raf, gameLoopRef)
       IN  raf' = e.raf /\ gameLoopRef' = e.ref
    /\ evalPending' = TRUE
    /\ UNCHANGED <<birdY, pipes, score, highScore, birdRotation, lastPipeRef>>

\* an impulse added to the velocity instead of replacing it
JumpPlaying_Additive ==
    /\ gameState = "playing"
    /\ frames % JumpEvery = 0
    /\ birdVelocity' = birdVelocity + JUMP_FORCE
    /\ LET e == LoopEffect(gameState, birdVelocity, gameState,
                           birdVelocity + JUMP_FORCE, raf, gameLoopRef)
       IN  raf' = e.raf /\ gameLoopRef' = e.ref
    /\ UNCHANGED <<gameState, birdY, pipes, score, highScore, birdRotation,
                   lastPipeRef, evalPending>>

\* the reset of the score placed in the playing branch as well
JumpPlaying_ResetScore ==
    /\ gameState = "playing"
    /\ frames % JumpEvery = 0
    /\ birdVelocity' = JUMP_FORCE
    /\ score' = 0
    /\ LET e == LoopEffect(gameState, birdVelocity, gameState, JUMP_FORCE,
                           raf, gameLoopRef)
       IN  raf' = e.raf /\ gameLoopRef' = e.ref
    /\ UNCHANGED <<gameState, birdY, pipes, highScore, birdRotation,
                   lastPipeRef, evalPending>>

\* lines 34-35
JumpPlaying ==
    /\ gameState = "playing"
    /\ frames % JumpEvery = 0
    /\ birdVelocity' = JUMP_FORCE
    /\ LET e == LoopEffect(gameState, birdVelocity, gameState, JUMP_FORCE,
                           raf, gameLoopRef)
       IN  raf' = e.raf /\ gameLoopRef' = e.ref
    /\ UNCHANGED <<gameState, birdY, pipes, score, highScore, birdRotation,
                   lastPipeRef, evalPending>>

\* a reset that restarts the round at once
JumpDead_Restart ==
    /\ gameState = "dead"
    /\ birdY' = (GAME_HEIGHT \div 2) * Unit
    /\ birdVelocity' = 0
    /\ pipes' = <<>>
    /\ score' = 0
    /\ birdRotation' = 0
    /\ gameState' = "playing"
    /\ LET e == LoopEffect(gameState, birdVelocity, "playing", 0, raf, gameLoopRef)
       IN  raf' = e.raf /\ gameLoopRef' = e.ref
    /\ evalPending' = TRUE
    /\ UNCHANGED <<highScore, lastPipeRef>>

\* a reset that keeps the score of the round that ended
JumpDead_KeepScore ==
    /\ gameState = "dead"
    /\ birdY' = (GAME_HEIGHT \div 2) * Unit
    /\ birdVelocity' = 0
    /\ pipes' = <<>>
    /\ birdRotation' = 0
    /\ gameState' = "idle"
    /\ LET e == LoopEffect(gameState, birdVelocity, "idle", 0, raf, gameLoopRef)
       IN  raf' = e.raf /\ gameLoopRef' = e.ref
    /\ evalPending' = TRUE
    /\ UNCHANGED <<score, highScore, lastPipeRef>>

\* lines 36-44
JumpDead ==
    /\ gameState = "dead"
    /\ birdY' = (GAME_HEIGHT \div 2) * Unit
    /\ birdVelocity' = 0
    /\ pipes' = <<>>
    /\ score' = 0
    /\ birdRotation' = 0
    /\ gameState' = "idle"
    /\ LET e == LoopEffect(gameState, birdVelocity, "idle", 0, raf, gameLoopRef)
       IN  raf' = e.raf /\ gameLoopRef' = e.ref
    /\ evalPending' = TRUE
    /\ UNCHANGED <<highScore, lastPipeRef>>

\* lines 30-45 (called from the key handler, lines 48-53, and the click)
Jump ==
    /\ \/ JumpIdle
       \/ JumpPlaying
       \/ JumpDead
    /\ lastOp' = "jump"
    /\ crossed' = IF gameState = "dead" THEN 0 ELSE crossed
    /\ UNCHANGED frames

\* ------------------------------------------------------------ game loop
\* a step that moves the bird by the velocity it has just updated
Frame_NewVelocity(cv, g) ==
    /\ cv \in raf
    /\ ~evalPending
    /\ frames < MaxFrames
    /\ LET v1  == birdVelocity + GRAVITY
           acc == lastPipeRef + PIPE_SPEED
           moved == MoveAll(pipes)
           e   == LoopEffect(gameState, birdVelocity, gameState, v1,
                             (raf \ {cv}) \cup {cv}, {cv})
       IN  /\ birdVelocity' = v1
           /\ birdY' = ClampY(birdY + v1)
           /\ birdRotation' = ClampRot(cv)
           /\ IF SpawnDue(acc)
              THEN pipes' = Append(moved, NewPipe(g)) /\ lastPipeRef' = 0
              ELSE pipes' = moved /\ lastPipeRef' = acc
           /\ raf' = e.raf
           /\ gameLoopRef' = e.ref
    /\ evalPending' = TRUE
    /\ frames' = frames + 1
    /\ lastOp' = "frame"
    /\ crossed' = crossed + Crossing(pipes)
    /\ UNCHANGED <<gameState, score, highScore>>

\* lines 61-89, one firing of the callback whose closure captured cv, and
\* the commit and game-loop effect that follow it
Frame(cv, g) ==
    /\ cv \in raf
    /\ ~evalPending
    /\ frames < MaxFrames
    /\ LET v1  == birdVelocity + GRAVITY
           acc == lastPipeRef + PIPE_SPEED
           moved == MoveAll(pipes)
           \* line 88: the callback re-registers itself
           e   == LoopEffect(gameState, birdVelocity, gameState, v1,
                             (raf \ {cv}) \cup {cv}, {cv})
       IN  /\ birdVelocity' = v1
           /\ birdY' = ClampY(birdY + cv)
           /\ birdRotation' = ClampRot(cv)
           /\ IF SpawnDue(acc)
              THEN pipes' = Append(moved, NewPipe(g)) /\ lastPipeRef' = 0
              ELSE pipes' = moved /\ lastPipeRef' = acc
           /\ raf' = e.raf
           /\ gameLoopRef' = e.ref
    /\ evalPending' = TRUE
    /\ frames' = frames + 1
    /\ lastOp' = "frame"
    /\ crossed' = crossed + Crossing(pipes)
    /\ UNCHANGED <<gameState, score, highScore>>

\* ------------------------------------------------------------ evaluator
\* lines 98-132
Evaluate ==
    /\ evalPending
    /\ lastOp' = "evaluate"
    /\ UNCHANGED <<birdY, birdVelocity, birdRotation, lastPipeRef, frames,
                   crossed>>
    /\ IF gameState # "playing"
       THEN /\ evalPending' = FALSE
            /\ UNCHANGED <<gameState, pipes, score, highScore, raf, gameLoopRef>>
       ELSE IF BoundaryHit(birdY)
       THEN /\ gameState' = "dead"
            /\ highScore' = NewHighScore(score, highScore)
            /\ LET e == LoopEffect(gameState, birdVelocity, "dead", birdVelocity,
                                   raf, gameLoopRef)
               IN  raf' = e.raf /\ gameLoopRef' = e.ref
            /\ evalPending' = TRUE
            /\ UNCHANGED <<pipes, score>>
       ELSE LET r  == PipeLoop(pipes, 1, birdY, 0)
                gs == IF r.dead THEN "dead" ELSE gameState
                e  == LoopEffect(gameState, birdVelocity, gs, birdVelocity,
                                 raf, gameLoopRef)
            IN  /\ pipes' = r.pipes
                /\ score' = score + r.inc
                /\ gameState' = gs
                /\ highScore' = IF r.dead THEN NewHighScore(score, highScore)
                                ELSE highScore
                /\ raf' = e.raf
                /\ gameLoopRef' = e.ref
                /\ evalPending' = (r.dead \/ r.inc > 0)

Next ==
    \/ Jump
    \/ \E cv \in raf, g \in GapChoices : Frame(cv, g)
    \/ Evaluate

Spec == Init /\ [][Next]_vars

\* ------------------------------------------------------------ no more input
\* the player stops pressing after LastInput frames
JumpEarly == frames < LastInput /\ Jump

NextLive ==
    \/ JumpEarly
    \/ \E cv \in raf, g \in GapChoices : Frame(cv, g)
    \/ Evaluate

\* The browser calls every registered animation-frame callback and React
\* runs every effect it has scheduled: weak fairness on both.
LiveSpec ==
    /\ Init
    /\ [][NextLive]_vars
    /\ WF_vars(\E cv \in raf, g \in GapChoices : Frame(cv, g))
    /\ WF_vars(Evaluate)

\* ------------------------------------------------------------ properties
Floor == (GAME_HEIGHT - BIRD_SIZE) * Unit
Centre == (GAME_HEIGHT \div 2) * Unit
PipeIdx == 1..Len(pipes)

\* C1: the phase changes only idle -> playing (by an activate input),
\* playing -> dead (by the collision evaluator) and dead -> idle (by an
\* activate input); in particular dead stays dead under frames and
\* evaluator runs.
C1_PhaseEdges ==
    [][gameState' # gameState =>
         \/ gameState = "idle" /\ gameState' = "playing" /\ lastOp' = "jump"
         \/ gameState = "playing" /\ gameState' = "dead" /\ lastOp' = "evaluate"
         \/ gameState = "dead" /\ gameState' = "idle" /\ lastOp' = "jump"]_vars

\* the evaluator has run in the dead phase and the phase is still dead
C1_Witness == gameState = "dead" /\ lastOp = "evaluate" /\ ~evalPending

\* C2: in every reachable state 0 <= birdY <= GAME_HEIGHT - BIRD_SIZE.
C2_BirdInBounds == 0 <= birdY /\ birdY <= Floor

\* a frame has driven the bird up to the ceiling
C2_Witness == lastOp = "frame" /\ birdY = 0 /\ birdVelocity < 0

\* C3: an obstacle is scored exactly once: the score changes only by +1 in
\* an evaluator run that turns exactly one passed flag on, for an obstacle
\* whose right edge is left of the bird, or by the reset; an evaluator run
\* that does not end the round marks every such obstacle; a passed flag is
\* never turned off, by the evaluator or by the copy the frame makes.
C3_ScoredOnce ==
    [][/\ score' # score =>
            \/ lastOp' = "jump" /\ gameState = "dead" /\ score' = 0
            \/ lastOp' = "evaluate" /\ score' = score + 1
       /\ lastOp' = "evaluate" =>
            /\ Len(pipes') = Len(pipes)
            /\ score' - score =
                 Cardinality({i \in PipeIdx : ~pipes[i].passed /\ pipes'[i].passed})
            /\ \A i \in PipeIdx :
                 /\ pipes[i].passed => pipes'[i].passed
                 /\ ~pipes[i].passed /\ pipes'[i].passed =>
                      pipes[i].x + PIPE_WIDTH < BIRD_LEFT
                 /\ gameState = "playing" /\ gameState' = "playing"
                      /\ pipes[i].x + PIPE_WIDTH < BIRD_LEFT => pipes'[i].passed
       /\ lastOp' = "frame" =>
            \A i \in PipeIdx : \A j \in 1..Len(pipes') :
                 pipes'[j].x = pipes[i].x - PIPE_SPEED /\ pipes[i].passed =>
                     pipes'[j].passed]_vars

\* a frame has copied an obstacle that was scored before
C3_Witness ==
    /\ lastOp = "frame"
    /\ score = 1
    /\ \E i \in PipeIdx : pipes[i].passed /\ pipes[i].x + PIPE_WIDTH < BIRD_LEFT - PIPE_SPEED

\* C4: an evaluator run in the playing phase with the bird at or above the
\* ceiling or at or below the floor ends the round; after an evaluator run
\* the phase is never playing with birdY = 0 or birdY = the floor; and no
\* frame starts from such a position, so a position clamped to 0 or to the
\* floor is followed by the end of the round before the next frame.
C4_BoundaryEnds ==
    [][/\ lastOp' = "evaluate" =>
            /\ gameState = "playing"
                 /\ (birdY <= 0 \/ birdY + BIRD_SIZE * Unit >= GAME_HEIGHT * Unit)
                 => gameState' = "dead"
            /\ gameState' = "playing" => 0 < birdY' /\ birdY' < Floor
       /\ lastOp' = "frame" => 0 < birdY /\ birdY < Floor]_vars

\* the bird was driven to the floor and the evaluator ended the round
C4_Witness == gameState = "dead" /\ birdY = Floor /\ lastOp = "evaluate"

\* C5: with no boundary collision, the evaluator ends the round exactly when
\* some obstacle overlaps the bird horizontally (strictly) and the bird is
\* not inside its gap (gap boundaries included in the gap).
C5_PipeCollision ==
    [][lastOp' = "evaluate" /\ gameState = "playing"
         /\ ~(birdY <= 0 \/ birdY + BIRD_SIZE * Unit >= GAME_HEIGHT * Unit)
         => (gameState' = "dead" <=>
               \E i \in PipeIdx :
                  /\ 130 > pipes[i].x
                  /\ 80 < pipes[i].x + PIPE_WIDTH
                  /\ \/ birdY < pipes[i].gapY
                     \/ birdY + BIRD_SIZE * Unit > pipes[i].gapY + PIPE_GAP * Unit)]_vars

\* the bird touches the top or the bottom of the gap of an obstacle it
\* overlaps, the evaluator has run and the round goes on
C5_Witness ==
    /\ gameState = "playing"
    /\ lastOp = "evaluate"
    /\ \E i \in PipeIdx :
          /\ 130 > pipes[i].x
          /\ 80 < pipes[i].x + PIPE_WIDTH
          /\ \/ birdY = pipes[i].gapY
             \/ birdY + BIRD_SIZE * Unit = pipes[i].gapY + PIPE_GAP * Unit

\* C6: an activate input in the idle phase sets the phase to playing and the
\* velocity to JUMP_FORCE and leaves position, obstacles, score and best
\* score unchanged.
C6_ActivateIdle ==
    [][lastOp' = "jump" /\ gameState = "idle" =>
         /\ gameState' = "playing"
         /\ birdVelocity' = -10 * Unit
         /\ UNCHANGED <<birdY, pipes, score, highScore>>]_vars

\* a later round has just been started by an activate input
C6_Witness ==
    /\ lastOp = "jump"
    /\ gameState = "playing"
    /\ evalPending
    /\ birdY = Centre
    /\ pipes = <<>>
    /\ highScore > 0

\* C7: an activate input in the dead phase sets phase = idle, position =
\* GAME_HEIGHT / 2, velocity = 0, rotation = 0, obstacles = empty, score = 0
\* and leaves the best score unchanged.
C7_ActivateDead ==
    [][lastOp' = "jump" /\ gameState = "dead" =>
         /\ gameState' = "idle"
         /\ birdY' = 300 * Unit
         /\ birdVelocity' = 0
         /\ birdRotation' = 0
         /\ pipes' = <<>>
         /\ score' = 0
         /\ highScore' = highScore]_vars

\* a round that had scored was reset
C7_Witness == lastOp = "jump" /\ gameState = "idle" /\ highScore > 0

\* C8: an activate input in the playing phase sets the velocity to
\* JUMP_FORCE whatever it was and changes neither position nor phase; a
\* second activate input right after an activate input changes nothing.
C8_ActivatePlaying ==
    [][lastOp' = "jump" /\ gameState = "playing" =>
         /\ birdVelocity' = -10 * Unit
         /\ birdY' = birdY
         /\ gameState' = "playing"
         /\ lastOp = "jump" =>
              UNCHANGED <<gameState, birdY, birdVelocity, pipes, score, highScore,
                          birdRotation, gameLoopRef, lastPipeRef, raf,
                          evalPending>>]_vars

\* an activate input arrived while the bird was falling
C8_Witness ==
    /\ lastOp = "jump"
    /\ gameState = "playing"
    /\ birdVelocity = JUMP_FORCE
    /\ birdRotation > 0
    /\ birdY # Centre

\* C9: whenever the phase is dead the best score is >= the score, and at
\* playing -> dead the best score becomes the maximum of the previous best
\* score and the round's final score.
C9_BestAtDeath ==
    /\ [](gameState = "dead" => highScore >= score)
    /\ [][gameState = "playing" /\ gameState' = "dead" =>
            highScore' = Max(highScore, score')]_vars

\* a round ended with a score that became the best score
C9_Witness == gameState = "dead" /\ score > 0 /\ highScore = score

\* C10: outside the playing phase no frame callback is pending and nothing
\* but an activate input changes position, velocity, rotation, obstacles or
\* the spawn accumulator; a frame callback fires only in the playing phase.
C10_LoopOnlyWhilePlaying ==
    /\ [](gameState # "playing" => raf = {})
    /\ [][/\ lastOp' = "frame" => gameState = "playing"
          /\ gameState # "playing" /\ lastOp' # "jump" =>
               UNCHANGED <<birdY, birdVelocity, birdRotation, pipes, lastPipeRef>>]_vars

\* a round ended and the callback that was pending is gone
C10_Witness ==
    /\ gameState = "dead"
    /\ gameLoopRef # NoFrame
    /\ raf = {}
    /\ lastOp = "evaluate"

\* C11: the score is a non-negative integer that never decreases within a
\* round; the only step that lowers it is the activate input in the dead
\* phase, which sets it to 0.
C11_ScoreMonotonic ==
    /\ [](score \in Nat)
    /\ [][score' < score =>
            lastOp' = "jump" /\ gameState = "dead" /\ score' = 0]_vars

\* a round goes on with two obstacles counted
C11_Witness == gameState = "playing" /\ score = 2 /\ lastOp = "frame"

\* C12: the best score never decreases, whatever the step.
C12_BestMonotonic == [][highScore' >= highScore]_vars

\* a round ended with a score below the best score, which was kept
C12_Witness == gameState = "dead" /\ lastOp = "evaluate" /\ highScore > score

\* C13: every obstacle in the list has -PIPE_WIDTH < x <= GAME_WIDTH: the
\* frame that brings an obstacle to x <= -PIPE_WIDTH removes it.
C13_PipesOnScreen ==
    \A i \in PipeIdx : -80 < pipes[i].x /\ pipes[i].x <= 400

\* the obstacle that was counted has been removed and the round goes on
C13_Witness ==
    /\ lastOp = "frame"
    /\ score >= 1
    /\ pipes # <<>>
    /\ \A i \in PipeIdx : ~pipes[i].passed

\* C14, as claimed: one frame takes velocity v and position y to v + GRAVITY
\* and clamp(y + (v + GRAVITY)): the bird moves by the updated velocity.
C14_MovesByNewVelocity ==
    [][lastOp' = "frame" =>
         /\ birdVelocity' = birdVelocity + 3
         /\ birdY' = Max(0, Min(Floor, birdY + (birdVelocity + 3)))]_vars

\* C14, amended: one frame takes velocity v and position y to v + GRAVITY
\* and clamp(y + v): the bird moves by the velocity of before the step (the
\* birdVelocity the callback's closure captured, line 64).
C14_MovesByOldVelocity ==
    [][lastOp' = "frame" =>
         /\ birdVelocity' = birdVelocity + 3
         /\ birdY' = Max(0, Min(Floor, birdY + birdVelocity))]_vars

\* the first frame after an activate input, not clamped
C14_Witness ==
    /\ lastOp = "frame"
    /\ birdVelocity = -10 * Unit + 3
    /\ 0 < birdY
    /\ birdY < Floor

\* C15: after every evaluator run of a round, the run that ends the round
\* included, every obstacle in the list whose right edge is left of the
\* bird's left edge has passed = true, and the score is the number of
\* obstacles of this round that have come that far; the run counts every
\* such obstacle that was not counted before, also when it ends the round.
C15_AllPassedCounted ==
    /\ [](lastOp = "evaluate" /\ gameState \in {"playing", "dead"} =>
            /\ \A i \in PipeIdx : pipes[i].x + 80 < 80 => pipes[i].passed
            /\ score = crossed)
    /\ [][lastOp' = "evaluate" /\ gameState = "playing" =>
            score' - score =
               Cardinality({i \in PipeIdx : pipes[i].x + 80 < 80 /\ ~pipes[i].passed})]_vars

\* the evaluator run that ended the round, with a counted obstacle in the list
C15_Witness ==
    /\ gameState = "dead"
    /\ lastOp = "evaluate"
    /\ evalPending
    /\ score >= 1
    /\ \E i \in PipeIdx : pipes[i].x + 80 < 80 /\ pipes[i].passed

\* C16: an activate input in the playing phase is seen by the very next
\* frame: in the playing phase the only pending callback is one whose
\* closure holds the current velocity, after the input that velocity is
\* JUMP_FORCE, and the frame that follows computes position and rotation
\* from JUMP_FORCE.
C16_InputSeenByNextFrame ==
    /\ [](gameState = "playing" => raf = {birdVelocity})
    /\ [](lastOp = "jump" /\ gameState = "playing" => birdVelocity = -10 * Unit)
    /\ [][lastOp' = "frame" /\ birdVelocity = -10 * Unit =>
            /\ birdY' = Max(0, Min(Floor, birdY - 10 * Unit))
            /\ birdRotation' = -30 * Unit]_vars

\* the frame after an activate input that arrived while the bird was below
\* the centre
C16_Witness ==
    /\ lastOp = "frame"
    /\ frames > 1
    /\ birdY > Centre
    /\ birdRotation = -30 * Unit
    /\ birdVelocity = -10 * Unit + 3

\* C17: a frame moves every obstacle left by 4, removes those with
\* x <= -80, adds 4 to the spawn accumulator and, exactly when it is then
\* > 200, resets it to 0 and appends one obstacle with x = 400 and
\* passed = false at the end of the list.  So the accumulator runs through
\* 0, 4, .., 200 (a spawn every 51 frames), the newest obstacle is at
\* 400 - accumulator, and consecutive obstacles are exactly 204 apart, in
\* increasing x.
C17_SpawnCadence ==
    /\ [](/\ lastPipeRef \in {4 * k : k \in 0..50}
          /\ \A i \in 1..(Len(pipes) - 1) : pipes[i + 1].x = pipes[i].x + 204
          /\ pipes # <<>> => pipes[Len(pipes)].x = 400 - lastPipeRef)
    /\ [][lastOp' = "frame" =>
            LET drop  == Cardinality({i \in PipeIdx : pipes[i].x - 4 <= -80})
                spawn == lastPipeRef + 4 > 200
                kept  == Len(pipes) - drop
            IN  /\ \A i \in PipeIdx : i <= drop => pipes[i].x - 4 <= -80
                /\ \A i \in PipeIdx : i > drop => pipes'[i - drop].x = pipes[i].x - 4
                /\ lastPipeRef' = IF spawn THEN 0 ELSE lastPipeRef + 4
                /\ Len(pipes') = IF spawn THEN kept + 1 ELSE kept
                /\ spawn => /\ pipes'[kept + 1].x = 400
                            /\ ~pipes'[kept + 1].passed]_vars

\* the third obstacle of a round has just been appended
C17_Witness == lastOp = "frame" /\ Len(pipes) = 3 /\ lastPipeRef = 0

\* C18: every obstacle has 75 <= gapY < 345 px, so its gap lies in the
\* playfield with a margin of at least 75 px above and below
\* (gapY + 180 <= 525), and neither a frame nor an evaluator run changes
\* the gapY of an obstacle that stays in the list.
C18_GapInBounds ==
    /\ [](\A i \in PipeIdx :
             /\ 75 * Unit <= pipes[i].gapY
             /\ pipes[i].gapY < 345 * Unit
             /\ pipes[i].gapY + 180 * Unit <= 525 * Unit)
    /\ [][/\ lastOp' = "evaluate" =>
               \A i \in PipeIdx : pipes'[i].gapY = pipes[i].gapY
          /\ lastOp' = "frame" =>
               \A i \in PipeIdx : \A j \in 1..Len(pipes') :
                   pipes'[j].x = pipes[i].x - 4 => pipes'[j].gapY = pipes[i].gapY]_vars

\* an obstacle with the greatest gap offset drawn has been moved and counted
C18_Witness ==
    \E i \in PipeIdx :
        pipes[i].gapY = 345 * Unit - 1 /\ pipes[i].x < 0 /\ pipes[i].passed

\* C19: whenever the phase is idle the spawn accumulator is 0, so that
\* every round starts from the same simulation state.
C19_IdleAccumulatorZero == gameState = "idle" => lastPipeRef = 0

\* C20: once no activate input arrives any more, a round that is being
\* played ends: under fairness of the frame callback and the evaluator,
\* gravity takes the bird to the floor or into an obstacle.
C20_RoundEnds ==
    (gameState = "playing" /\ frames >= LastInput) ~> (gameState = "dead")

\* without input the bird fell into an obstacle, away from floor and ceiling
C20_Witness ==
    /\ gameState = "dead"
    /\ frames > LastInput
    /\ 0 < birdY
    /\ birdY < Floor
====
